---- MODULE Spec2Model ----
(***************************************************************************)
(* Subscription service: the HTTP handlers (internal/handlers) over the    *)
(* PostgreSQL repository (internal/repository).  The table "subscriptions" *)
(* is a set of rows; every handler is one action that reads its request,   *)
(* runs its repository calls against the table and leaves its response in  *)
(* resp.  For requests served concurrently, UpdateSubscription is also     *)
(* given as its two repository calls, GetByID and Update, as separate      *)
(* steps; inflight holds the requests between the two.                     *)
(*                                                                         *)
(* Encodings.  A UUID is a positive integer.  A nullable value (a pointer  *)
(* to time.Time or string, a nullable column) is a sequence of length at   *)
(* most one: <<>> is nil / NULL, <<v>> is the value v.  A date is a day    *)
(* number counted from 2025-01-01.  A text is a sequence: <<>> is the      *)
(* empty string.                                                           *)
(***************************************************************************)
EXTENDS Integers, Sequences, FiniteSets, TLC

VARIABLES table, issued, resp, inflight

vars == <<table, issued, resp, inflight>>

(* ---- bounds of the model ---- *)
MaxUser == 2
MaxGen == 2
MaxPrice == 1
MaxMonth == 2
MaxReq == 2

(* ---- values ---- *)
ClientUUIDs == 1..MaxUser
GenUUIDs == (MaxUser + 1)..(MaxUser + MaxGen)
Names == {<<"n">>, <<"n", "f">>}
NULL == <<>>

(* days before the first of each month of 2025: time.Parse("01-2006", ..) *)
DaysBefore == <<0, 31, 59, 90, 120, 151, 181, 212, 243, 273, 304, 334>>
ThirtyDays == 30

MonthDays == {DaysBefore[m] : m \in 1..MaxMonth}

(* Every date a row can hold is the first day of a month or thirty days    *)
(* after one.  A reference date compares with the stored dates as one of   *)
(* these, the day before one or the day after one does, so these stand for *)
(* every date from 2025-01-01 on.                                          *)
StoredDays == MonthDays \cup {d + ThirtyDays : d \in MonthDays}
Days == {d \in UNION {{s - 1, s, s + 1} : s \in StoredDays} : d >= 0}

(* ---- HTTP status codes ---- *)
StatusOK == 200
StatusCreated == 201
StatusNoContent == 204
StatusBadRequest == 400
StatusNotFound == 404
StatusInternalServerError == 500

NoBody == <<>>

(***************************************************************************)
(* SQL: three-valued comparison, WHERE, SUM, COALESCE, Scan                *)
(***************************************************************************)
SqlTrue == "true"
SqlFalse == "false"
SqlUnknown == "unknown"

SqlBool(b) == IF b THEN SqlTrue ELSE SqlFalse

(* col <= arg, col >= arg, col = arg on nullable operands *)
SqlLtOrEq(col, arg) ==
    IF col = NULL \/ arg = NULL THEN SqlUnknown ELSE SqlBool(col[1] <= arg[1])

(* seeded fault: the upper bound compared with > instead of >= *)
SqlGtOrEq_Strict(col, arg) ==
    IF col = NULL \/ arg = NULL THEN SqlUnknown ELSE SqlBool(col[1] > arg[1])

SqlGtOrEq(col, arg) ==
    IF col = NULL \/ arg = NULL THEN SqlUnknown ELSE SqlBool(col[1] >= arg[1])

SqlEq(col, arg) ==
    IF col = NULL \/ arg = NULL THEN SqlUnknown ELSE SqlBool(col[1] = arg[1])

SqlAnd(a, b) ==
    IF a = SqlFalse \/ b = SqlFalse THEN SqlFalse
    ELSE IF a = SqlUnknown \/ b = SqlUnknown THEN SqlUnknown
    ELSE SqlTrue

(* a WHERE clause keeps the rows on which the condition is true *)
Selected(cond) == cond = SqlTrue

RECURSIVE SumPrice(_)
SumPrice(rows) ==
    IF rows = {} THEN 0
    ELSE LET r == CHOOSE x \in rows : TRUE
         IN r.price + SumPrice(rows \ {r})

(* SUM(price): NULL over no rows *)
SqlSum(rows) == IF rows = {} THEN NULL ELSE <<SumPrice(rows)>>

(* seeded fault: SUM(price) selected without COALESCE *)
Coalesce_Missing(v, d) == v

Coalesce(v, d) == IF v = NULL THEN <<d>> ELSE v

(* row.Scan(&total) into a Go int: a NULL cannot be scanned *)
Scan(v) == IF v = NULL THEN [err |-> TRUE, val |-> 0] ELSE [err |-> FALSE, val |-> v[1]]

(***************************************************************************)
(* internal/repository                                                     *)
(***************************************************************************)
(* INSERT INTO subscriptions (...) VALUES (...) *)
Create(t, sub) == [table |-> t \cup {sub}, err |-> FALSE]

(* SELECT ... WHERE user_id = $1: the rows QueryRow may scan (it takes the *)
(* first row of the result, whose order SQL leaves open)                   *)
GetByID(t, id) == {r \in t : Selected(SqlEq(<<r.user_id>>, <<id>>))}

(* the error of row.Scan that GetByID returns, "" for nil: the store's     *)
(* failure when QueryRow could not run, pgx.ErrNoRows over an empty result *)
GetByIDError(t, id, storeDown) ==
    IF storeDown THEN "store failure"
    ELSE IF GetByID(t, id) = {} THEN "no rows in result set"
    ELSE ""

(* UPDATE subscriptions SET service_name, price, start_date, end_date      *)
(* WHERE user_id = sub.UserID; the statement is executed (and committed)   *)
(* before RowsAffected is looked at                                        *)
(* seeded fault: the id column set from the record as well *)
UpdateSet_WithId(r, sub) ==
    [r EXCEPT !.id = sub.id,
              !.service_name = sub.service_name,
              !.price = sub.price,
              !.start_date = sub.start_date,
              !.end_date = sub.end_date]

UpdateSet(r, sub) ==
    [r EXCEPT !.service_name = sub.service_name,
              !.price = sub.price,
              !.start_date = sub.start_date,
              !.end_date = sub.end_date]

(* the error Update and Delete return when RowsAffected() != 1, "" for nil *)
RowsAffectedError(rowsAffected) == IF rowsAffected # 1 THEN "no rows affected" ELSE ""

Update(t, sub) ==
    LET hit == {r \in t : Selected(SqlEq(<<r.user_id>>, <<sub.user_id>>))}
    IN [table |-> (t \ hit) \cup {UpdateSet(r, sub) : r \in hit},
        rowsAffected |-> Cardinality(hit),
        err |-> Cardinality(hit) # 1,
        msg |-> RowsAffectedError(Cardinality(hit))]

(* DELETE FROM subscriptions WHERE user_id = $1 *)
Delete(t, userID) ==
    LET hit == {r \in t : Selected(SqlEq(<<r.user_id>>, <<userID>>))}
    IN [table |-> t \ hit,
        rowsAffected |-> Cardinality(hit),
        err |-> Cardinality(hit) # 1,
        msg |-> RowsAffectedError(Cardinality(hit)),
        isErrNoRows |-> FALSE]

GetAllSubscriptions(t) == t

(* WHERE (start_date <= date AND end_date >= date) *)
DateCond(r, date) ==
    SqlAnd(SqlLtOrEq(<<r.start_date>>, <<date>>), SqlGtOrEq(r.end_date, <<date>>))

(* .Where(Eq{"user_id": userID}) when filterByUser *)
UserCond(r, filterByUser, userID) ==
    IF filterByUser THEN SqlEq(<<r.user_id>>, <<userID>>) ELSE SqlTrue

(* seeded fault: the service_name condition added even for an empty filter *)
ServiceCond_Unguarded(r, serviceName) == SqlBool(r.service_name = serviceName)

(* .Where(Eq{"service_name": serviceName}) when serviceName != "" *)
ServiceCond(r, serviceName) ==
    IF serviceName # <<>> THEN SqlBool(r.service_name = serviceName) ELSE SqlTrue

(* seeded fault: the service_name condition built on a fresh query, so it  *)
(* replaces the user_id condition instead of narrowing it                  *)
CostRows_LastWhereWins(t, date, filterByUser, userID, serviceName) ==
    {r \in t : Selected(SqlAnd(DateCond(r, date),
                               IF serviceName # <<>> THEN ServiceCond(r, serviceName)
                               ELSE UserCond(r, filterByUser, userID)))}

(* the rows the built query sums: successive Where calls are ANDed *)
CostRows(t, date, filterByUser, userID, serviceName) ==
    {r \in t : Selected(SqlAnd(SqlAnd(DateCond(r, date),
                                      UserCond(r, filterByUser, userID)),
                               ServiceCond(r, serviceName)))}

(* SELECT COALESCE(SUM(price), 0) ...; Scan(&total) *)
GetTotalSubscriptionCost(t, date, filterByUser, userID, serviceName) ==
    LET s == Scan(Coalesce(SqlSum(CostRows(t, date, filterByUser, userID, serviceName)), 0))
    IN [total |-> s.val, err |-> s.err]

(***************************************************************************)
(* internal/handlers: parsing                                              *)
(***************************************************************************)
(* uuid.Parse: the text <<u>> denotes the UUID u; <<0>> and <<>> denote none *)
parseUUID(text) ==
    IF Len(text) = 1 /\ text[1] >= 1 THEN [err |-> FALSE, val |-> text[1]]
    ELSE [err |-> TRUE, val |-> 0]

(* time.Parse("01-2006", ..): the text <<m>> is month m of 2025, giving    *)
(* the first day of that month                                             *)
parseDate(text) ==
    IF Len(text) = 1 /\ text[1] \in 1..12 THEN [err |-> FALSE, val |-> DaysBefore[text[1]]]
    ELSE [err |-> TRUE, val |-> 0]

(* what a handler writes: the status code and the encoded body *)
Response(op, status, body) == [op |-> op, status |-> status, body |-> body]

(***************************************************************************)
(* requests                                                                *)
(***************************************************************************)
(* texts of a UUID: empty, unparsable (<<0>>), or a UUID the client knows *)
UUIDTexts(known) == {<<>>} \cup {<<u>> : u \in {0} \cup known}

(* path ids: the route admits only 36 characters of hex digits and dashes, *)
(* which may still not parse (<<0>>)                                       *)
PathIDs(known) == {<<u>> : u \in {0} \cup known}

(* POST bodies: every well-formed one over the small value sets, and one   *)
(* body per way of being rejected                                          *)
ValidCreateInputs ==
    [service_name : Names,
     price : 1..MaxPrice,
     user_id : {<<u>> : u \in ClientUUIDs},
     start_date : {<<m>> : m \in 1..MaxMonth},
     end_date : {NULL} \cup {<<<<m>>>> : m \in 1..MaxMonth}]

BaseInput ==
    [service_name |-> <<"n">>, price |-> 1, user_id |-> <<1>>,
     start_date |-> <<1>>, end_date |-> NULL]

InvalidCreateInputs ==
    {[BaseInput EXCEPT !.service_name = <<>>],
     [BaseInput EXCEPT !.price = 0],
     [BaseInput EXCEPT !.price = -1],
     [BaseInput EXCEPT !.user_id = <<>>],
     [BaseInput EXCEPT !.user_id = <<0>>],
     [BaseInput EXCEPT !.start_date = <<>>],
     [BaseInput EXCEPT !.start_date = <<0>>],
     [BaseInput EXCEPT !.end_date = <<<<0>>>>]}

(* with them, a body whose end_date is the empty string *)
CreateInputs ==
    ValidCreateInputs \cup InvalidCreateInputs \cup {[BaseInput EXCEPT !.end_date = <<<<>>>>]}

(* the body as sent: <<>> is a body json.Decode rejects *)
CreateRequests == {<<>>} \cup {<<i>> : i \in CreateInputs}

(* the decoded JSON body of a PUT: any name, any price from the zero value *)
(* up, any user, a start date, and an end date that is null or the first   *)
(* day of the year                                                         *)
UpdateBodies ==
    [service_name : Names,
     price : 0..MaxPrice,
     user_id : ClientUUIDs,
     start_date : MonthDays,
     end_date : {NULL, <<DaysBefore[1]>>}]

(* the body as sent: <<>> is a body json.Decode rejects *)
UpdateRequests == {<<>>} \cup {<<b>> : b \in UpdateBodies}

QueryDates == StoredDays

(* time.Parse("2006-01-02", ..): the text <<d>> is day d; <<-1>> is no date *)
parseQueryDate(text) ==
    IF Len(text) = 1 /\ text[1] >= 0 THEN [err |-> FALSE, val |-> text[1]]
    ELSE [err |-> TRUE, val |-> 0]

(***************************************************************************)
(* internal/handlers: what each handler answers and leaves in the table    *)
(***************************************************************************)
Outcome(t, r) == [table |-> t, resp |-> r]

(* seeded fault: the required-fields test without the price *)
CreateParse_NoPriceCheck(input) ==
    LET user == parseUUID(input.user_id)
        start == parseDate(input.start_date)
        hasEnd == input.end_date # NULL /\ input.end_date[1] # <<>>
        end == IF hasEnd THEN parseDate(input.end_date[1]) ELSE [err |-> FALSE, val |-> 0]
        endTime == IF hasEnd THEN <<end.val>> ELSE <<start.val + ThirtyDays>>
        msg == IF \/ input.service_name = <<>>
                  \/ input.user_id = <<>>
                  \/ input.start_date = <<>> THEN "Missing required fields"
               ELSE IF user.err THEN "Invalid user_id format"
               ELSE IF start.err THEN "Invalid start_date format"
               ELSE IF end.err THEN "Invalid end_date format"
               ELSE ""
    IN [msg |-> msg,
        service_name |-> input.service_name,
        price |-> input.price,
        user_id |-> user.val,
        start_date |-> start.val,
        end_date |-> endTime]

(* seeded fault: an absent end_date stored as NULL *)
CreateParse_NullEnd(input) ==
    LET user == parseUUID(input.user_id)
        start == parseDate(input.start_date)
        hasEnd == input.end_date # NULL /\ input.end_date[1] # <<>>
        end == IF hasEnd THEN parseDate(input.end_date[1]) ELSE [err |-> FALSE, val |-> 0]
        endTime == IF hasEnd THEN <<end.val>> ELSE NULL
        msg == IF \/ input.service_name = <<>>
                  \/ input.user_id = <<>>
                  \/ input.start_date = <<>>
                  \/ input.price <= 0 THEN "Missing required fields"
               ELSE IF user.err THEN "Invalid user_id format"
               ELSE IF start.err THEN "Invalid start_date format"
               ELSE IF end.err THEN "Invalid end_date format"
               ELSE ""
    IN [msg |-> msg,
        service_name |-> input.service_name,
        price |-> input.price,
        user_id |-> user.val,
        start_date |-> start.val,
        end_date |-> endTime]

(* CreateSubscription from the decoded input up to uuid.New(): the error    *)
(* message, or "" and the parsed fields                                    *)
CreateParse(input) ==
    LET user == parseUUID(input.user_id)
        start == parseDate(input.start_date)
        hasEnd == input.end_date # NULL /\ input.end_date[1] # <<>>
        end == IF hasEnd THEN parseDate(input.end_date[1]) ELSE [err |-> FALSE, val |-> 0]
        endTime == IF hasEnd THEN <<end.val>> ELSE <<start.val + ThirtyDays>>
        msg == IF \/ input.service_name = <<>>
                  \/ input.user_id = <<>>
                  \/ input.start_date = <<>>
                  \/ input.price <= 0 THEN "Missing required fields"
               ELSE IF user.err THEN "Invalid user_id format"
               ELSE IF start.err THEN "Invalid start_date format"
               ELSE IF end.err THEN "Invalid end_date format"
               ELSE ""
    IN [msg |-> msg,
        service_name |-> input.service_name,
        price |-> input.price,
        user_id |-> user.val,
        start_date |-> start.val,
        end_date |-> endTime]

(* uuid.New(): a UUID that no earlier call returned and no client has yet   *)
(* seen.  UUIDs are only ever compared for equality, so which unissued one  *)
(* comes back makes no difference: the least is taken.                      *)
NewUUID(iss) == CHOOSE id \in GenUUIDs \ iss : \A other \in GenUUIDs \ iss : id <= other

(* id is the value uuid.New() returns *)
CreateOutcome(t, body, id) ==
    IF body = <<>>
    THEN Outcome(t, Response("Create", StatusBadRequest, "Invalid request payload"))
    ELSE
    LET p == CreateParse(body[1])
        sub == [id |-> id,
                service_name |-> p.service_name,
                price |-> p.price,
                user_id |-> p.user_id,
                start_date |-> p.start_date,
                end_date |-> p.end_date]
        ins == Create(t, sub)
    IN IF p.msg # "" THEN Outcome(t, Response("Create", StatusBadRequest, p.msg))
       ELSE IF ins.err
       THEN Outcome(ins.table, Response("Create", StatusInternalServerError,
                                        "Failed to create subscription"))
       ELSE Outcome(ins.table, Response("Create", StatusCreated, sub))

(* GetSubscription; storeDown: the store cannot be reached, or the call is  *)
(* cancelled or times out                                                  *)
GetSubscriptionOutcomes(t, idStr, storeDown) ==
    LET id == parseUUID(idStr)
        err == GetByIDError(t, id.val, storeDown)
    IN IF id.err
       THEN {Outcome(t, Response("Get", StatusBadRequest, "Invalid user_id format"))}
       ELSE IF err # ""
       THEN {Outcome(t, Response("Get", StatusNotFound, "Subscription not found"))}
       ELSE {Outcome(t, Response("Get", StatusOK, subscription)) :
                 subscription \in GetByID(t, id.val)}

(* GetSubscription over a store that answers *)
GetOutcomes(t, idStr) == GetSubscriptionOutcomes(t, idStr, FALSE)

(* the answers that need no body: a bad path id, or no row for it *)
UpdateLookup(t, idStr) ==
    LET id == parseUUID(idStr)
    IN IF id.err
       THEN {Outcome(t, Response("Update", StatusBadRequest, "Invalid subscription ID format"))}
       ELSE IF GetByID(t, id.val) = {}
       THEN {Outcome(t, Response("Update", StatusNotFound, "Subscription not found"))}
       ELSE {}

UpdateWrite(t, got, updateData) ==
    LET subscription == [got EXCEPT !.service_name = updateData.service_name,
                                    !.price = updateData.price,
                                    !.user_id = updateData.user_id,
                                    !.start_date = updateData.start_date,
                                    !.end_date = updateData.end_date]
        upd == Update(t, subscription)
    IN IF upd.err
       THEN Outcome(upd.table, Response("Update", StatusInternalServerError,
                                        "Failed to update subscription"))
       ELSE Outcome(upd.table, Response("Update", StatusOK, subscription))

UpdateOutcomes(t, idStr, body) ==
    IF UpdateLookup(t, idStr) # {} THEN UpdateLookup(t, idStr)
    ELSE IF body = <<>>
    THEN {Outcome(t, Response("Update", StatusBadRequest, "Invalid request body"))}
    ELSE {UpdateWrite(t, got, body[1]) : got \in GetByID(t, parseUUID(idStr).val)}

DeleteOutcome(t, idStr) ==
    LET id == parseUUID(idStr)
        del == Delete(t, id.val)
    IN IF id.err
       THEN Outcome(t, Response("Delete", StatusBadRequest, "Invalid subscription ID format"))
       ELSE IF del.err
       THEN IF del.isErrNoRows
            THEN Outcome(del.table, Response("Delete", StatusNotFound, "Subscription not found"))
            ELSE Outcome(del.table, Response("Delete", StatusInternalServerError,
                                             "Failed to delete subscription"))
       ELSE Outcome(del.table, Response("Delete", StatusNoContent, NoBody))

TotalOutcome(t, dateStr, userIDStr, serviceName) ==
    LET date == parseQueryDate(dateStr)
        user == parseUUID(userIDStr)
        filterByUser == userIDStr # <<>>
        cost == GetTotalSubscriptionCost(t, date.val, filterByUser, user.val, serviceName)
    IN IF date.err
       THEN Outcome(t, Response("Total", StatusBadRequest, "Invalid date format"))
       ELSE IF filterByUser /\ user.err
       THEN Outcome(t, Response("Total", StatusBadRequest, "Invalid subscription ID format"))
       ELSE IF cost.err
       THEN Outcome(t, Response("Total", StatusInternalServerError, "Error calculating total cost"))
       ELSE Outcome(t, Response("Total", StatusOK, [date |-> dateStr, total |-> cost.total]))

(***************************************************************************)
(* internal/handlers: the handlers as steps                                *)
(***************************************************************************)
CreateSubscription ==
    \E body \in CreateRequests :
        IF body = <<>> \/ CreateParse(body[1]).msg # ""
        THEN /\ resp' = CreateOutcome(table, body, 0).resp
             /\ UNCHANGED <<table, issued, inflight>>
        ELSE /\ GenUUIDs \ issued # {}
             /\ \E o \in {CreateOutcome(table, body, NewUUID(issued))} :
                    /\ table' = o.table
                    /\ resp' = o.resp
             /\ issued' = issued \cup {NewUUID(issued)}
             /\ UNCHANGED inflight

GetSubscription ==
    \E idStr \in PathIDs(ClientUUIDs \cup issued), storeDown \in BOOLEAN :
        \E o \in GetSubscriptionOutcomes(table, idStr, storeDown) :
            /\ resp' = o.resp
            /\ UNCHANGED <<table, issued, inflight>>

UpdateSubscription ==
    \E idStr \in PathIDs(ClientUUIDs \cup issued) :
        IF UpdateLookup(table, idStr) # {}
        THEN \E o \in UpdateLookup(table, idStr) :
                 /\ resp' = o.resp
                 /\ UNCHANGED <<table, issued, inflight>>
        ELSE \E body \in UpdateRequests :
                 \E o \in UpdateOutcomes(table, idStr, body) :
                     /\ table' = o.table
                     /\ resp' = o.resp
                     /\ UNCHANGED <<issued, inflight>>

DeleteSubscription ==
    \E idStr \in PathIDs(ClientUUIDs \cup issued) :
        \E o \in {DeleteOutcome(table, idStr)} :
            /\ table' = o.table
            /\ resp' = o.resp
            /\ UNCHANGED <<issued, inflight>>

ListSubscriptions ==
    /\ resp' = Response("List", StatusOK, GetAllSubscriptions(table))
    /\ UNCHANGED <<table, issued, inflight>>

GetTotalCost ==
    \E dateStr \in {<<d>> : d \in {-1} \cup QueryDates},
       userIDStr \in UUIDTexts(ClientUUIDs),
       serviceName \in {<<>>} \cup Names :
        /\ resp' = TotalOutcome(table, dateStr, userIDStr, serviceName).resp
        /\ UNCHANGED <<table, issued, inflight>>

(***************************************************************************)
(* the service: an empty table, then any request at any time               *)
(***************************************************************************)
(* no request is between its repository calls *)
Idle == [pc |-> "idle"]
Requests == 1..MaxReq

Init ==
    /\ table = {}
    /\ issued = {}
    /\ resp = Response("none", 0, NoBody)
    /\ inflight = [s \in Requests |-> Idle]

Next ==
    \/ CreateSubscription
    \/ GetSubscription
    \/ UpdateSubscription
    \/ DeleteSubscription
    \/ ListSubscriptions
    \/ GetTotalCost

Spec == Init /\ [][Next]_vars

(***************************************************************************)
(* requests served concurrently (net/http runs every request on its own    *)
(* goroutine): UpdateSubscription and DeleteSubscription over a table that *)
(* CreateSubscription has filled.  A handler touches the table only in its *)
(* repository calls, each of them one SQL statement; UpdateSubscription    *)
(* makes two, GetByID and then Update, and other requests run in between.  *)
(***************************************************************************)
(* the POSTs that filled the table: one per user *)
ConcCreates == {[BaseInput EXCEPT !.user_id = <<u>>] : u \in ClientUUIDs}

(* the tables one or two such POSTs leave *)
ConcTables ==
    LET one(i) == CreateOutcome({}, <<i>>, NewUUID({})).table
        two(i1, i2) == CreateOutcome(one(i1), <<i2>>, NewUUID({r.id : r \in one(i1)})).table
    IN {one(i) : i \in ConcCreates} \cup {two(i1, i2) : i1 \in ConcCreates, i2 \in ConcCreates}

(* PUT bodies: two that differ in every field written, for every user *)
ConcBodies ==
    {b \in UpdateBodies :
        \/ /\ b.service_name = <<"n">> /\ b.price = 1
           /\ b.start_date = DaysBefore[1] /\ b.end_date = NULL
        \/ /\ b.service_name = <<"n", "f">> /\ b.price = 0
           /\ b.start_date = DaysBefore[2] /\ b.end_date = <<DaysBefore[1]>>}

InitConc ==
    /\ table \in ConcTables
    /\ issued = {r.id : r \in table}
    /\ resp = Response("none", 0, NoBody)
    /\ inflight = [s \in Requests |-> Idle]

(* UpdateSubscription up to repo.Update: the path id, GetByID, the body.   *)
(* It answers at once when one of them fails; otherwise the record found   *)
(* and the decoded body wait for the write.                                *)
UpdateBegin(s) ==
    /\ inflight[s] = Idle
    /\ \E idStr \in PathIDs(ClientUUIDs \cup issued) :
           IF UpdateLookup(table, idStr) # {}
           THEN \E o \in UpdateLookup(table, idStr) :
                    /\ resp' = o.resp
                    /\ UNCHANGED <<table, issued, inflight>>
           ELSE \E body \in {<<>>} \cup {<<b>> : b \in ConcBodies} :
                    IF body = <<>>
                    THEN \E o \in UpdateOutcomes(table, idStr, body) :
                             /\ resp' = o.resp
                             /\ UNCHANGED <<table, issued, inflight>>
                    ELSE \E got \in GetByID(table, parseUUID(idStr).val) :
                             /\ inflight' = [inflight EXCEPT ![s] =
                                                 [pc |-> "write", got |-> got,
                                                  updateData |-> body[1]]]
                             /\ UNCHANGED <<table, issued, resp>>

(* the rest of UpdateSubscription: the fields copied, repo.Update on the   *)
(* table as it is now, the answer                                          *)
UpdateFinish(s) ==
    /\ inflight[s].pc = "write"
    /\ \E o \in {UpdateWrite(table, inflight[s].got, inflight[s].updateData)} :
           /\ table' = o.table
           /\ resp' = o.resp
    /\ inflight' = [inflight EXCEPT ![s] = Idle]
    /\ UNCHANGED issued

NextConc ==
    \/ \E s \in Requests : UpdateBegin(s)
    \/ \E s \in Requests : UpdateFinish(s)
    \/ DeleteSubscription

SpecConc == InitConc /\ [][NextConc]_vars

(***************************************************************************)
(* Properties                                                              *)
(***************************************************************************)
(* the UUIDs a client can put in a path or a query: its own and every one  *)
(* the service has handed out                                              *)
KnownUUIDs == ClientUUIDs \cup issued

(* the summary for date d without filters, and whether the row r          *)
(* contributes its price to it                                             *)
TotalAt(t, d) == GetTotalSubscriptionCost(t, d, FALSE, 0, <<>>).total
Includes(t, r, d) == TotalAt(t, d) = TotalAt(t \ {r}, d) + r.price
Excludes(t, r, d) == TotalAt(t, d) = TotalAt(t \ {r}, d)

(* C1: right after CreateSubscription answered 201 with a record, a        *)
(* GetSubscription with that record's id answers 200 with exactly that     *)
(* record.                                                                 *)
C1_RoundTrip ==
    (resp.op = "Create" /\ resp.status = StatusCreated) =>
        \A o \in GetOutcomes(table, <<resp.body.id>>) :
            o.resp = Response("Get", StatusOK, resp.body)

(* C2: a stored subscription with a null end_date contributes its price to *)
(* the total at every date d >= start_date and does not at any d <         *)
(* start_date.                                                             *)
C2_OpenEndedByStart ==
    \A r \in table :
        r.end_date = NULL =>
            \A d \in Days :
                /\ d >= r.start_date => Includes(table, r, d)
                /\ d < r.start_date => Excludes(table, r, d)

(* C3: a stored subscription with a non-null end_date contributes its      *)
(* price to the total at date d if and only if start_date <= d <= end_date,*)
(* both bounds included.                                                   *)
C3_ClosedInterval ==
    \A r \in table :
        r.end_date # NULL =>
            \A d \in Days :
                IF r.start_date <= d /\ d <= r.end_date[1]
                THEN Includes(table, r, d)
                ELSE Excludes(table, r, d)

(* C3 happens: the only stored row has a positive price and a proper       *)
(* interval, and the total asked for its last day is that price.           *)
C3_Witness ==
    /\ resp.op = "Total" /\ resp.status = StatusOK
    /\ \E r \in table :
        /\ table = {r}
        /\ r.price > 0
        /\ r.end_date # NULL
        /\ r.start_date < r.end_date[1]
        /\ resp.body.date = r.end_date
        /\ resp.body.total = r.price

(* C4: whenever the date and the filters select no row, the empty table    *)
(* included, GetTotalCost answers 200 with a total of 0.                   *)
C4_NoMatchIsZero ==
    \A d \in Days, userIDStr \in {<<>>} \cup {<<u>> : u \in KnownUUIDs},
       serviceName \in {<<>>} \cup Names :
        CostRows(table, d, userIDStr # <<>>, parseUUID(userIDStr).val, serviceName) = {} =>
            TotalOutcome(table, <<d>>, userIDStr, serviceName) =
                Outcome(table, Response("Total", StatusOK, [date |-> <<d>>, total |-> 0]))

(* C4 happens: a total of 0 was answered over a table whose rows all have  *)
(* a positive price, so no row was selected.                               *)
C4_Witness ==
    /\ resp.op = "Total" /\ resp.status = StatusOK
    /\ resp.body.total = 0
    /\ table # {}
    /\ \A r \in table : r.price > 0

C6_FiltersIntersect ==
    \A d \in Days, U \in KnownUUIDs, N \in Names :
        /\ CostRows(table, d, TRUE, U, N) =
               CostRows(table, d, TRUE, U, <<>>) \cap CostRows(table, d, FALSE, 0, N)
        /\ CostRows(table, d, TRUE, U, <<>>) =
               {r \in CostRows(table, d, FALSE, 0, <<>>) : r.user_id = U}

(* C6 happens: two rows of one user with different services are both in    *)
(* their interval at the date asked, and the total answered is the price   *)
(* of one of them alone, so a service_name filter narrowed that user's rows.*)
C6_Witness ==
    /\ resp.op = "Total" /\ resp.status = StatusOK
    /\ \E r1 \in table, r2 \in table :
        /\ table = {r1, r2}
        /\ r1.user_id = r2.user_id
        /\ r1.service_name # r2.service_name
        /\ r1.price > 0 /\ r2.price > 0
        /\ {r1, r2} = CostRows(table, resp.body.date[1], FALSE, 0, <<>>)
        /\ resp.body.total = r1.price

(* C7: UpdateSubscription with a path id that is the id of no stored row   *)
(* answers 404 and leaves the table as it was.                             *)
C7_UpdateUnknownIdNotFound ==
    \A id \in KnownUUIDs, body \in UpdateRequests :
        (~ \E r \in table : r.id = id) =>
            \A o \in UpdateOutcomes(table, <<id>>, body) :
                o.resp.status = StatusNotFound /\ o.table = table

(* C8: DeleteSubscription with a path id that is the id of no stored row   *)
(* answers 404 and leaves the table as it was.                             *)
C8_DeleteUnknownIdNotFound ==
    \A id \in KnownUUIDs :
        (~ \E r \in table : r.id = id) =>
            /\ DeleteOutcome(table, <<id>>).resp.status = StatusNotFound
            /\ DeleteOutcome(table, <<id>>).table = table

(* C9: when DeleteSubscription(id) answers 204, no row with that id is     *)
(* left, a GetSubscription(id) that follows answers 404, and every row     *)
(* with another id is still stored as it was.                              *)
C9_DeleteRemovesOnlyThatId ==
    \A id \in KnownUUIDs :
        LET o == DeleteOutcome(table, <<id>>)
        IN o.resp.status = StatusNoContent =>
               /\ ~ \E r \in o.table : r.id = id
               /\ \A g \in GetOutcomes(o.table, <<id>>) : g.resp.status = StatusNotFound
               /\ \A r \in table : r.id # id => r \in o.table

(* C10: when UpdateSubscription(id, fields) answers 200, the row whose id  *)
(* is the path id now holds the fields of the body (its user_id kept or    *)
(* taken from the body) and every other row is stored as it was.           *)
C10_UpdateWritesOnlyThatId ==
    \A id \in KnownUUIDs, b \in UpdateBodies :
        \A o \in UpdateOutcomes(table, <<id>>, <<b>>) :
            o.resp.status = StatusOK =>
                \E r \in table, u \in KnownUUIDs :
                    /\ r.id = id
                    /\ u \in {r.user_id, b.user_id}
                    /\ o.table = (table \ {r}) \cup
                           {[id |-> r.id,
                             service_name |-> b.service_name,
                             price |-> b.price,
                             user_id |-> u,
                             start_date |-> b.start_date,
                             end_date |-> b.end_date]}

(* the record repo.Update is handed for a key and a decoded body: only the  *)
(* fields Update reads matter                                               *)
SubOf(userID, b) ==
    [id |-> 0, service_name |-> b.service_name, price |-> b.price, user_id |-> userID,
     start_date |-> b.start_date, end_date |-> b.end_date]

(* C11: an Update or a Delete whose statement affects more than one row    *)
(* returns an error other than the one returned when it affects no row, and *)
(* the handler answers the two differently.                                *)
C11_MultiRowToldApart ==
    \A many \in KnownUUIDs, none \in KnownUUIDs :
        /\ (Delete(table, many).rowsAffected > 1 /\ Delete(table, none).rowsAffected = 0) =>
               /\ Delete(table, many).msg # Delete(table, none).msg
               /\ DeleteOutcome(table, <<many>>).resp # DeleteOutcome(table, <<none>>).resp
        /\ \A b \in UpdateBodies :
               LET m == Update(table, SubOf(many, b))
                   n == Update(table, SubOf(none, b))
               IN (m.rowsAffected > 1 /\ n.rowsAffected = 0) => m.msg # n.msg

(* the ids of the stored rows *)
IdsOf(t) == {r.id : r \in t}

(* C12: no two stored rows ever have the same id; and in every step an id  *)
(* that appears in the table was generated in that step (none is reused or *)
(* taken over from another row), and a step that keeps the number of rows  *)
(* keeps their ids.                                                        *)
C12_IdUniqueAndFixed ==
    /\ [](\A r1 \in table, r2 \in table : r1.id = r2.id => r1 = r2)
    /\ [][/\ IdsOf(table') \ IdsOf(table) \subseteq issued' \ issued
          /\ issued \subseteq issued'
          /\ Cardinality(table') = Cardinality(table) => IdsOf(table') = IdsOf(table)]_vars

(* C12 happens: an update was answered 200 while two rows were stored.     *)
C12_Witness ==
    /\ resp.op = "Update" /\ resp.status = StatusOK
    /\ Cardinality(table) = 2

(* C13: every stored row with a non-null end_date has start_date <=        *)
(* end_date.                                                               *)
C13_StartNotAfterEnd ==
    \A r \in table : r.end_date # NULL => r.start_date <= r.end_date[1]

(* C14: every stored row has price > 0.                                    *)
C14_PricePositive ==
    \A r \in table : r.price > 0

(* POST bodies with every combination of a good or a bad value per field *)
CreateFieldCombos ==
    [service_name : {<<>>, <<"n">>},
     price : {-1, 0, 1},
     user_id : {<<>>, <<0>>, <<1>>},
     start_date : {<<>>, <<0>>, <<1>>},
     end_date : {NULL, <<<<>>>>, <<<<0>>>>, <<<<1>>>>}]

(* an empty service_name, user_id or start_date, a price <= 0, or a        *)
(* user_id, start_date or (non-empty) end_date that does not parse         *)
BadCreateInput(input) ==
    \/ input.service_name = <<>>
    \/ input.user_id = <<>>
    \/ input.start_date = <<>>
    \/ input.price <= 0
    \/ parseUUID(input.user_id).err
    \/ parseDate(input.start_date).err
    \/ /\ input.end_date # NULL
       /\ input.end_date[1] # <<>>
       /\ parseDate(input.end_date[1]).err

(* what respondWithError says of a body whose fields are rejected *)
ValidationMessages ==
    {"Missing required fields", "Invalid user_id format",
     "Invalid start_date format", "Invalid end_date format"}

(* C15: CreateSubscription on such a body answers 400 and leaves the table *)
(* as it was, whatever the table holds (the handler returns before         *)
(* uuid.New(), so no id is generated: 0 stands for none).                  *)
C15_InvalidCreateInsertsNothing ==
    \A input \in CreateFieldCombos :
        BadCreateInput(input) =>
            \E msg \in ValidationMessages :
                CreateOutcome(table, <<input>>, 0) =
                    Outcome(table, Response("Create", StatusBadRequest, msg))

(* C15 happens: a POST was rejected for its fields while rows were stored. *)
C15_Witness ==
    /\ resp.op = "Create" /\ resp.status = StatusBadRequest
    /\ resp.body \in ValidationMessages
    /\ table # {}

(* C16: a POST that passes the checks stores one new row, the record it    *)
(* answers, whose end_date is 30 days after its start_date when the body   *)
(* has no end_date or an empty one, and the end_date of the body otherwise.*)
C16_EndDateDefault ==
    \A input \in CreateInputs, id \in GenUUIDs \ issued :
        ~ BadCreateInput(input) =>
            LET o == CreateOutcome(table, <<input>>, id)
                start == parseDate(input.start_date).val
            IN /\ o.resp.status = StatusCreated
               /\ o.resp.body.id = id
               /\ o.table = table \cup {o.resp.body}
               /\ o.resp.body.start_date = start
               /\ o.resp.body.end_date =
                      IF input.end_date = NULL \/ input.end_date[1] = <<>>
                      THEN <<start + 30>>
                      ELSE <<parseDate(input.end_date[1]).val>>

(* C16 happens: a POST without end_date was answered 201 and the row it    *)
(* answered is stored with an end_date 30 days after its start_date.       *)
C16_Witness ==
    /\ resp.op = "Create" /\ resp.status = StatusCreated
    /\ resp.body \in table
    /\ resp.body.end_date = <<resp.body.start_date + 30>>

(* texts compared without regard to case, and one text occurring in another *)
ToLower(c) == IF c = "N" THEN "n" ELSE IF c = "F" THEN "f" ELSE c
FoldCase(text) == [i \in 1..Len(text) |-> ToLower(text[i])]
Occurs(part, text) ==
    \E k \in 0..(Len(text) - Len(part)) : \A i \in 1..Len(part) : text[k + i] = part[i]

FilterTexts == {<<"n">>, <<"f">>, <<"N">>, <<"n", "f">>, <<"N", "F">>, <<"f", "n">>}

(* C17: among the rows the date selects, the service_name filter selects   *)
(* exactly those in whose service_name the filter text occurs, case        *)
(* disregarded.                                                            *)
C17_ServiceNameSubstring ==
    \A d \in Days, filter \in FilterTexts :
        \A r \in CostRows(table, d, FALSE, 0, <<>>) :
            r \in CostRows(table, d, FALSE, 0, filter) <=>
                Occurs(FoldCase(filter), FoldCase(r.service_name))

(* C18: GetSubscription answers 404 only when the store answered and holds *)
(* no row with the id asked for; when the store fails it answers something *)
(* else.                                                                   *)
C18_NotFoundOnlyWhenNoRow ==
    \A id \in KnownUUIDs, storeDown \in BOOLEAN :
        \A o \in GetSubscriptionOutcomes(table, <<id>>, storeDown) :
            o.resp.status = StatusNotFound =>
                ~ storeDown /\ ~ \E r \in table : r.id = id

(* C19: whenever Update or Delete returns an error, the table it leaves is *)
(* the table it found, whatever rows share the key.                        *)
C19_ErrorLeavesTable ==
    \A userID \in KnownUUIDs :
        /\ Delete(table, userID).err => Delete(table, userID).table = table
        /\ \A b \in UpdateBodies :
               Update(table, SubOf(userID, b)).err =>
                   Update(table, SubOf(userID, b)).table = table

(* C20: when UpdateSubscription answers 200, the record it answers is a    *)
(* stored row, and a GetSubscription with the same path id answers 200     *)
(* with that record.                                                       *)
C20_UpdateAnswerIsStored ==
    \A id \in KnownUUIDs, b \in UpdateBodies :
        \A o \in UpdateOutcomes(table, <<id>>, <<b>>) :
            o.resp.status = StatusOK =>
                /\ o.resp.body \in o.table
                /\ \A g \in GetOutcomes(o.table, <<id>>) :
                       g.resp = Response("Get", StatusOK, o.resp.body)

(* C21: in every step of the concurrent service, (1) an update's write     *)
(* does not increase the number of stored rows; (2) an update whose write  *)
(* comes after the row it looked up was deleted does not answer 200; and   *)
(* (3) every row an update's write changes holds, in all four fields the   *)
(* statement sets, the values of that one update's body.                   *)
C21_UpdateDeleteInterleavings ==
    [][\A s \in Requests :
          (inflight[s].pc = "write" /\ inflight'[s] = Idle) =>
              /\ Cardinality(table') <= Cardinality(table)
              /\ inflight[s].got.id \notin IdsOf(table) => resp'.status # StatusOK
              /\ \A new \in table' \ table :
                     \E old \in table :
                         new = [old EXCEPT
                                   !.service_name = inflight[s].updateData.service_name,
                                   !.price = inflight[s].updateData.price,
                                   !.start_date = inflight[s].updateData.start_date,
                                   !.end_date = inflight[s].updateData.end_date]]_vars

====
